---- MODULE Spec2Model ----
(***************************************************************************)
(* Model of roms-bot (src/main.go, src/build-db.go): the term parser       *)
(* parseArgs, the filter compiler buildSQLQuery with the catalog query it  *)
(* issues, and the result delivery of handleCommand.                       *)
(*                                                                         *)
(* Strings are sequences of one-character strings, so that they can be     *)
(* indexed, sliced and compared byte by byte as the Go code does.          *)
(***************************************************************************)
EXTENDS Integers, Sequences, FiniteSets, TLC

\* ------------------------------------------------------------------------
\* Bounds of the model
\* ------------------------------------------------------------------------

\* longest query string enumerated exhaustively for the parser
MaxLen == 5

\* number of events the homeserver delivers to the callback
MaxEvents == 1

\* number of terms of the queries enumerated for the filter
MaxTerms == 2

\* const maxResults = 1000 (src/main.go:246), scaled down
maxResults == 4

\* const batchSize = 100 (src/main.go:247), scaled down
batchSize == 2

VARIABLES
    \* --- parseArgs ---
    query,          \* the query string being parsed
    i,              \* loop index of the scanning loop (bytes consumed so far)
    tokens,         \* tokens completed so far
    curr,           \* the strings.Builder accumulating the current token
    inQuote,        \* inside a quoted span
    quoteChar,      \* the quote character that opened the span
    positives,      \* result: positive terms
    negatives,      \* result: negative terms
    ppc,            \* position in parseArgs: "scan", "classify", "done", or "off"
    \* --- the bot ---
    catalog,        \* rows of table files in links.db
    handled,        \* number of events delivered to the callback so far
    eventID,        \* id of the event being handled (NoID when idle)
    pc,             \* position in handleCommand
    results,        \* the materialized, sorted rows
    batchStart,     \* loop variable of the batch loop (0-based)
    previousMsgID,  \* reply target of the next batch
    sent,           \* every send invoked so far, with its outcome
    nextId,         \* next event id the homeserver hands out
    queried,        \* the commands db.Query was called for, in order
    lastEvent,      \* the event last delivered to the callback, when recorded
    other           \* the locals of a second, suspended invocation of the callback

parseVars == <<query, i, tokens, curr, inQuote, quoteChar, positives, negatives, ppc>>
botVars == <<catalog, handled, eventID, pc, results, batchStart, previousMsgID, sent, nextId,
             queried, lastEvent, other>>
\* what the model records beside the program's own state
auxVars == <<queried, lastEvent, other>>
vars == <<query, i, tokens, curr, inQuote, quoteChar, positives, negatives, ppc,
          catalog, handled, eventID, pc, results, batchStart, previousMsgID, sent, nextId,
          queried, lastEvent, other>>

\* ------------------------------------------------------------------------
\* Sequence helpers
\* ------------------------------------------------------------------------

Range(s) == {s[k] : k \in 1..Len(s)}

\* all sequences over S of length 0..n
SeqsUpTo(S, n) == UNION {[1..k -> S] : k \in 0..n}

\* ------------------------------------------------------------------------
\* parseArgs (src/main.go:171-214)
\* ------------------------------------------------------------------------

\* value of quoteChar before any quote was seen: byte(0)
NUL == "NUL"

\* the two quote characters tested at line 178
QuoteChars == {"\"", "'"}

\* locals of parseArgs before the loop (lines 172-175)
ScanInit == [tokens |-> <<>>, curr |-> <<>>, inQuote |-> FALSE, quoteChar |-> NUL]

\* mutant of ScanStep: a space splits the token inside a quoted span too
ScanStepSplitInQuote(st, c) ==
    IF c \in QuoteChars
    THEN IF st.inQuote /\ c = st.quoteChar
         THEN [st EXCEPT !.tokens = IF Len(st.curr) > 0 THEN Append(@, st.curr) ELSE @,
                         !.curr = IF Len(st.curr) > 0 THEN <<>> ELSE @,
                         !.inQuote = FALSE]
         ELSE IF ~st.inQuote
              THEN [st EXCEPT !.inQuote = TRUE, !.quoteChar = c]
              ELSE [st EXCEPT !.curr = Append(@, c)]
    ELSE IF c = " "
         THEN [st EXCEPT !.tokens = IF Len(st.curr) > 0 THEN Append(@, st.curr) ELSE @,
                         !.curr = IF Len(st.curr) > 0 THEN <<>> ELSE @]
         ELSE [st EXCEPT !.curr = Append(@, c)]

\* mutant of ScanStep: an opening quote is kept as content of the token
ScanStepKeepQuote(st, c) ==
    IF c \in QuoteChars
    THEN IF st.inQuote /\ c = st.quoteChar
         THEN [st EXCEPT !.tokens = IF Len(st.curr) > 0 THEN Append(@, st.curr) ELSE @,
                         !.curr = IF Len(st.curr) > 0 THEN <<>> ELSE @,
                         !.inQuote = FALSE]
         ELSE IF ~st.inQuote
              THEN [st EXCEPT !.inQuote = TRUE, !.quoteChar = c, !.curr = Append(@, c)]
              ELSE [st EXCEPT !.curr = Append(@, c)]
    ELSE IF c = " " /\ ~st.inQuote
         THEN [st EXCEPT !.tokens = IF Len(st.curr) > 0 THEN Append(@, st.curr) ELSE @,
                         !.curr = IF Len(st.curr) > 0 THEN <<>> ELSE @]
         ELSE [st EXCEPT !.curr = Append(@, c)]

\* mutant of ScanStep: an opening quote ends the token being accumulated
ScanStepOpenQuoteEndsToken(st, c) ==
    IF c \in QuoteChars
    THEN IF st.inQuote /\ c = st.quoteChar
         THEN [st EXCEPT !.tokens = IF Len(st.curr) > 0 THEN Append(@, st.curr) ELSE @,
                         !.curr = IF Len(st.curr) > 0 THEN <<>> ELSE @,
                         !.inQuote = FALSE]
         ELSE IF ~st.inQuote
              THEN [st EXCEPT !.tokens = IF Len(st.curr) > 0 THEN Append(@, st.curr) ELSE @,
                              !.curr = IF Len(st.curr) > 0 THEN <<>> ELSE @,
                              !.inQuote = TRUE, !.quoteChar = c]
              ELSE [st EXCEPT !.curr = Append(@, c)]
    ELSE IF c = " " /\ ~st.inQuote
         THEN [st EXCEPT !.tokens = IF Len(st.curr) > 0 THEN Append(@, st.curr) ELSE @,
                         !.curr = IF Len(st.curr) > 0 THEN <<>> ELSE @]
         ELSE [st EXCEPT !.curr = Append(@, c)]

\* one iteration of the scanning loop on byte c (lines 177-198)
ScanStep(st, c) ==
    IF c \in QuoteChars
    THEN IF st.inQuote /\ c = st.quoteChar
         THEN [st EXCEPT !.tokens = IF Len(st.curr) > 0 THEN Append(@, st.curr) ELSE @,
                         !.curr = IF Len(st.curr) > 0 THEN <<>> ELSE @,
                         !.inQuote = FALSE]
         ELSE IF ~st.inQuote
              THEN [st EXCEPT !.inQuote = TRUE, !.quoteChar = c]
              ELSE [st EXCEPT !.curr = Append(@, c)]
    ELSE IF c = " " /\ ~st.inQuote
         THEN [st EXCEPT !.tokens = IF Len(st.curr) > 0 THEN Append(@, st.curr) ELSE @,
                         !.curr = IF Len(st.curr) > 0 THEN <<>> ELSE @]
         ELSE [st EXCEPT !.curr = Append(@, c)]

\* the scanning loop over the first n bytes of q (line 176)
RECURSIVE ScanPrefix(_, _)
ScanPrefix(q, n) == IF n = 0 THEN ScanInit ELSE ScanStep(ScanPrefix(q, n - 1), q[n])

\* the flush after the loop (lines 200-202): the tokens of q
ScanFlush(st) == IF Len(st.curr) > 0 THEN Append(st.tokens, st.curr) ELSE st.tokens

\* mutant of Classify: the leading '-' of a negative term is kept
RECURSIVE ClassifyKeepMarker(_)
ClassifyKeepMarker(toks) ==
    IF toks = <<>> THEN [positives |-> <<>>, negatives |-> <<>>]
    ELSE LET rest == ClassifyKeepMarker(Tail(toks))
             t == Head(toks)
         IN  IF Len(t) = 0 THEN rest
             ELSE IF t[1] = "-"
                  THEN [rest EXCEPT !.negatives = <<t>> \o @]
                  ELSE [rest EXCEPT !.positives = <<t>> \o @]

\* the classification loop (lines 203-212)
RECURSIVE Classify(_)
Classify(toks) ==
    IF toks = <<>> THEN [positives |-> <<>>, negatives |-> <<>>]
    ELSE LET rest == Classify(Tail(toks))
             t == Head(toks)
         IN  IF Len(t) = 0 THEN rest
             ELSE IF t[1] = "-"
                  THEN [rest EXCEPT !.negatives = <<SubSeq(t, 2, Len(t))>> \o @]
                  ELSE [rest EXCEPT !.positives = <<t>> \o @]

\* parseArgs as a whole
parseArgs(q) == Classify(ScanFlush(ScanPrefix(q, Len(q))))

\* ------------------------------------------------------------------------
\* Strings: bytes, order, case folding
\* ------------------------------------------------------------------------

\* the byte value of a character (Go compares strings byte by byte)
Byte(c) ==
    CASE c = " " -> 32 [] c = "!" -> 33 [] c = "\"" -> 34 [] c = "%" -> 37
      [] c = "&" -> 38 [] c = "'" -> 39 [] c = "-" -> 45 [] c = "1" -> 49
      [] c = "2" -> 50 [] c = "3" -> 51 [] c = "4" -> 52 [] c = "5" -> 53
      [] c = "6" -> 54 [] c = "7" -> 55 [] c = "<" -> 60 [] c = ">" -> 62
      [] c = "A" -> 65 [] c = "G" -> 71 [] c = "M" -> 77 [] c = "N" -> 78
      [] c = "S" -> 83 [] c = "_" -> 95 [] c = "a" -> 97 [] c = "b" -> 98
      [] c = "d" -> 100 [] c = "g" -> 103 [] c = "m" -> 109 [] c = "n" -> 110
      [] c = "s" -> 115 [] c = "u" -> 117

\* a < b for Go strings
RECURSIVE StrLess(_, _)
StrLess(a, b) ==
    IF b = <<>> THEN FALSE
    ELSE IF a = <<>> THEN TRUE
    ELSE IF Head(a) # Head(b) THEN Byte(Head(a)) < Byte(Head(b))
    ELSE StrLess(Tail(a), Tail(b))

\* ASCII case folding of one character, as strings.ToLower and SQL LOWER() do
LowerChar(c) ==
    CASE c = "A" -> "a" [] c = "G" -> "g" [] c = "M" -> "m" [] c = "N" -> "n"
      [] c = "S" -> "s" [] OTHER -> c

ToLower(str) == [k \in 1..Len(str) |-> LowerChar(str[k])]

\* strconv of a non-negative integer (the %d verb of fmt.Sprintf)
Digits == <<"0", "1", "2", "3", "4", "5", "6", "7", "8", "9">>

RECURSIVE Itoa(_)
Itoa(n) == IF n < 10 THEN <<Digits[n + 1]>>
           ELSE Itoa(n \div 10) \o <<Digits[(n % 10) + 1]>>

\* ------------------------------------------------------------------------
\* buildSQLQuery and the query it describes (src/main.go:216-243)
\* ------------------------------------------------------------------------

\* one WHERE conjunct: the pattern bound three times and whether it is NOT LIKE
PositiveClause(p) == [negated |-> FALSE, val |-> <<"%">> \o ToLower(p) \o <<"%">>]
NegativeClause(n) == [negated |-> TRUE, val |-> <<"%">> \o ToLower(n) \o <<"%">>]

\* the statement and its arguments: the conjuncts in order, and the LIMIT argument
buildSQLQuery(pos, neg, max) ==
    [ where |-> [k \in 1..(Len(pos) + Len(neg)) |->
                    IF k <= Len(pos) THEN PositiveClause(pos[k])
                    ELSE NegativeClause(neg[k - Len(pos)])],
      limit |-> max + 1 ]

\* SQLite's LIKE: % matches any run of characters, _ any one character, other
\* characters match themselves without regard to ASCII case
RECURSIVE Like(_, _)
Like(pat, txt) ==
    IF pat = <<>> THEN txt = <<>>
    ELSE IF Head(pat) = "%"
         THEN Like(Tail(pat), txt) \/ (txt # <<>> /\ Like(pat, Tail(txt)))
         ELSE /\ txt # <<>>
              /\ Head(pat) = "_" \/ LowerChar(Head(pat)) = LowerChar(Head(txt))
              /\ Like(Tail(pat), Tail(txt))

\* one conjunct of the WHERE clause evaluated on a row
ClauseHolds(cl, row) ==
    IF cl.negated
    THEN /\ ~Like(cl.val, ToLower(row.section))
         /\ ~Like(cl.val, ToLower(row.console))
         /\ ~Like(cl.val, ToLower(row.file))
    ELSE \/ Like(cl.val, ToLower(row.section))
         \/ Like(cl.val, ToLower(row.console))
         \/ Like(cl.val, ToLower(row.file))

\* mutant of Matching: the conjuncts are joined with OR
MatchingAnyClause(stmt, cat) ==
    {row \in cat : \/ Len(stmt.where) = 0
                   \/ \E k \in 1..Len(stmt.where) : ClauseHolds(stmt.where[k], row)}

\* the rows of the catalog the WHERE clause selects
Matching(stmt, cat) ==
    {row \in cat : \A k \in 1..Len(stmt.where) : ClauseHolds(stmt.where[k], row)}

\* mutant of RowLess: the console is left out of the comparison
RowLessSkipConsole(a, b) ==
    IF a.section # b.section THEN StrLess(a.section, b.section)
    ELSE StrLess(a.file, b.file)

\* the comparison of sort.Slice (lines 289-297), which is ORDER BY section, console, file
RowLess(a, b) ==
    IF a.section # b.section THEN StrLess(a.section, b.section)
    ELSE IF a.console # b.console THEN StrLess(a.console, b.console)
    ELSE StrLess(a.file, b.file)

\* every arrangement of a set of rows in which no row precedes a smaller one:
\* rows that compare equal may come in any order (sort.Slice is not stable)
RECURSIVE SortedSeqs(_)
SortedSeqs(T) ==
    IF T = {} THEN {<<>>}
    ELSE UNION { {<<r>> \o rest : rest \in SortedSeqs(T \ {r})} :
                 r \in {x \in T : \A y \in T : ~RowLess(y, x)} }

\* mutant of Fetched: the statement asks for max rows, not max + 1
FetchedNoExtraRow(stmt, cat) ==
    LET M == Matching(stmt, cat)
        n == IF Cardinality(M) < stmt.limit - 1 THEN Cardinality(M) ELSE stmt.limit - 1
    IN  UNION { SortedSeqs(T) :
                T \in {U \in SUBSET M : /\ Cardinality(U) = n
                                        /\ \A x \in U : \A y \in M \ U : ~RowLess(y, x)} }

\* what db.Query, the rows loop and the sort can leave in results (lines 260-297):
\* the first `limit` matching rows in ORDER BY order
Fetched(stmt, cat) ==
    LET M == Matching(stmt, cat)
        n == IF Cardinality(M) < stmt.limit THEN Cardinality(M) ELSE stmt.limit
    IN  UNION { SortedSeqs(T) :
                T \in {U \in SUBSET M : /\ Cardinality(U) = n
                                        /\ \A x \in U : \A y \in M \ U : ~RowLess(y, x)} }

\* ------------------------------------------------------------------------
\* Rendering of a batch (src/main.go:342-350, 376-385)
\* ------------------------------------------------------------------------

\* the replacement htmlEscape makes for one character
\* mutant of EscapeChar: the double quote is missing from the replacer
EscapeCharNoQuot(c) ==
    CASE c = "&" -> "&amp;" [] c = "<" -> "&lt;" [] c = ">" -> "&gt;"
      [] c = "'" -> "&#39;" [] OTHER -> c

EscapeChar(c) ==
    CASE c = "&" -> "&amp;" [] c = "<" -> "&lt;" [] c = ">" -> "&gt;"
      [] c = "\"" -> "&quot;" [] c = "'" -> "&#39;" [] OTHER -> c

htmlEscape(str) == [k \in 1..Len(str) |-> EscapeChar(str[k])]

\* the line written to plain for one row (line 345)
PlainLine(row) == row.section \o <<" - ">> \o row.console \o <<" - ">> \o row.file \o <<"\n">>

\* the line written to html for one row (lines 346-349)
HtmlLine(row) ==
    htmlEscape(row.section) \o <<" - ">> \o htmlEscape(row.console)
       \o <<" - <a href=\"">> \o row.rawurl \o <<"\">">> \o htmlEscape(row.file)
       \o <<"</a><br>">>

RECURSIVE RenderPlain(_)
RenderPlain(rows) ==
    IF rows = <<>> THEN <<>> ELSE PlainLine(Head(rows)) \o RenderPlain(Tail(rows))

RECURSIVE RenderHtml(_)
RenderHtml(rows) ==
    IF rows = <<>> THEN <<>> ELSE HtmlLine(Head(rows)) \o RenderHtml(Tail(rows))

\* ------------------------------------------------------------------------
\* The catalog (src/build-db.go:32-39, 49) and the events
\* ------------------------------------------------------------------------

Row(sec, con, fil, url) == [section |-> sec, console |-> con, file |-> fil, rawurl |-> url]

\* the rows a catalog is drawn from; rawurl is the primary key, and the first
\* two rows differ in it alone
Pool == {
    Row(<<"S">>, <<"N">>, <<"M", "a">>, <<"u", "1">>),
    Row(<<"S">>, <<"N">>, <<"M", "a">>, <<"u", "2">>),
    Row(<<"S">>, <<"N">>, <<"a", "<">>, <<"u", "3">>),
    Row(<<"S">>, <<"G">>, <<"b", "&">>, <<"u", "&", "4">>),
    Row(<<"A">>, <<"G">>, <<"a", "_", "b">>, <<"u", "5">>),
    Row(<<"A">>, <<"N">>, <<"d", "\"">>, <<"u", "6">>) }

\* time.Now() at start-up, the origin of the event timestamps
startTime == 0

\* client.UserID and cfg.Matrix.Room
BotUser == "@bot"
ConfigRoom == "!roms-room"

\* message bodies that arrive
Bodies == {
    <<"!", "r", "o", "m", "s">>,
    <<"!", "r", "o", "m", "s", " ", "a">>,
    <<"!", "r", "o", "m", "s", " ", "s", " ", "-", "m", "a">>,
    <<"!", "r", "o", "m", "s", " ", " ", "\"", "s", "\"", " ", "-", "G", " ">>,
    <<"!", "r", "o", "m", "s", " ", "-">>,
    <<"!", "r", "o", "m", "s", "x">>,
    <<"!", "h", "e", "l", "p">>,
    <<"r", "o", "m", "s">> }

Events ==
    [ Sender : {BotUser, "@user"},
      RoomID : {ConfigRoom, "!other-room"},
      Timestamp : {startTime - 1, startTime, startTime + 1},
      IsText : BOOLEAN,
      Body : Bodies ]

\* the absent event id (the zero value of id.EventID)
NoID == <<>>

\* an event id: the homeserver numbers events as they are created
Eid(n) == <<"$", n>>

\* ------------------------------------------------------------------------
\* strings helpers of handleCommand (src/main.go:249-255)
\* ------------------------------------------------------------------------

IsSpace(c) == c \in {" ", "\t", "\n", "\r"}

\* strings.Fields: the maximal runs of non-space characters
RECURSIVE Fields(_)
Fields(str) ==
    IF str = <<>> THEN <<>>
    ELSE IF IsSpace(Head(str)) THEN Fields(Tail(str))
    ELSE LET n == CHOOSE k \in 2..(Len(str) + 1) :
                     /\ k = Len(str) + 1 \/ IsSpace(str[k])
                     /\ \A j \in 2..(k - 1) : ~IsSpace(str[j])
         IN  <<SubSeq(str, 1, n - 1)>> \o Fields(SubSeq(str, n, Len(str)))

\* strings.TrimSpace
RECURSIVE TrimSpace(_)
TrimSpace(str) ==
    IF str = <<>> THEN <<>>
    ELSE IF IsSpace(Head(str)) THEN TrimSpace(Tail(str))
    ELSE IF IsSpace(str[Len(str)]) THEN TrimSpace(SubSeq(str, 1, Len(str) - 1))
    ELSE str

\* the command word of the switch at line 253
RomsCommand == <<"!", "r", "o", "m", "s">>

\* ------------------------------------------------------------------------
\* Outgoing sends
\* ------------------------------------------------------------------------

\* the two reaction keys (lines 305, 327)
KeyReject == "cross mark"
KeyAccept == "check mark"

\* a send as recorded in sent; fields a payload does not have are empty.
\*   cmd: the event being handled; evtype, msgtype, body, format, formatted_body,
\*   rel_type, event_id, key, in_reply_to: the payload; rows: the batch rendered
\*   into it; ok, id: the outcome of the send and the event id it returned
Send(cmd, evtype, msgtype, body, html, rel, target, key, reply, rows, ok, newId) ==
    [ cmd |-> cmd, evtype |-> evtype, msgtype |-> msgtype, body |-> body,
      formatted_body |-> html, rel_type |-> rel, event_id |-> target, key |-> key,
      in_reply_to |-> reply, rows |-> rows, ok |-> ok,
      id |-> IF ok THEN newId ELSE NoID ]

\* the annotation payloads (lines 301-307, 323-329)
Reaction(cmd, key, ok, newId) ==
    Send(cmd, "m.reaction", "", <<>>, <<>>, "m.annotation", cmd, key, NoID, <<>>, ok, newId)

\* mutant of TooManyMsg: the notice is threaded under the trigger like a batch
TooManyMsgThreaded(cmd, n, ok, newId) ==
    Send(cmd, "m.room.message", "m.text", <<"Too many results: ">> \o Itoa(n), <<>>,
         "m.thread", cmd, "", cmd, <<>>, ok, newId)

\* the overflow notice (lines 309-317)
TooManyMsg(cmd, n, ok, newId) ==
    Send(cmd, "m.room.message", "m.text", <<"Too many results: ">> \o Itoa(n), <<>>,
         "", NoID, "", cmd, <<>>, ok, newId)

\* mutant of BatchMsg: every batch replies to the trigger message
BatchMsgReplyToRoot(cmd, batch, replyTo, ok, newId) ==
    Send(cmd, "m.room.message", "m.text", RenderPlain(batch), RenderHtml(batch),
         "m.thread", cmd, "", cmd, batch, ok, newId)

\* a batch message (lines 352-365)
BatchMsg(cmd, batch, replyTo, ok, newId) ==
    Send(cmd, "m.room.message", "m.text", RenderPlain(batch), RenderHtml(batch),
         "m.thread", cmd, "", replyTo, batch, ok, newId)

\* client.SendText of the search error (lines 262, 284)
ErrorText(cmd, ok, newId) ==
    Send(cmd, "m.room.message", "m.text", <<"Search error: ", "err">>, <<>>,
         "", NoID, "", NoID, <<>>, ok, newId)

IsReaction(m) == m.evtype = "m.reaction"
IsBatch(m) == m.evtype = "m.room.message" /\ m.rel_type = "m.thread"
IsTooMany(m) == m.evtype = "m.room.message" /\ m.rel_type = "" /\ m.in_reply_to # NoID
IsErrorText(m) == m.evtype = "m.room.message" /\ m.rel_type = "" /\ m.in_reply_to = NoID

\* ------------------------------------------------------------------------
\* Specification of parseArgs alone: every short query string, byte by byte
\* ------------------------------------------------------------------------

\* characters the parser distinguishes, and two ordinary ones
ParseAlphabet == {"a", "b", " ", "\"", "'", "-"}

\* the worked examples of the documentation
ParseExamples == {
    <<"\"", "a", " ", "b", "\"", " ", "-", "c">>,
    <<"\"", "a", "b", "c">>,
    <<"a", "b", "\"", "c", "d", " ", "e", "f", "\"">>,
    <<"\"", "a", "b", "\"", "c", "d">>,
    <<"m", "a", "r", "i", "o", " ", "-", "d", "e", "m", "o">> }

ParseInputs == SeqsUpTo(ParseAlphabet, MaxLen) \cup ParseExamples

\* the locals of an invocation of the callback that has not received its event
IdleFrame ==
    [ eventID |-> NoID, pc |-> "idle", query |-> <<>>, positives |-> <<>>,
      negatives |-> <<>>, results |-> <<>>, batchStart |-> 0, previousMsgID |-> NoID ]

\* nothing recorded yet
AuxInit == queried = <<>> /\ lastEvent = <<>> /\ other = IdleFrame

\* the bot's variables while only the parser runs
BotOff ==
    /\ catalog = {} /\ handled = 0 /\ eventID = NoID /\ pc = "off"
    /\ results = <<>> /\ batchStart = 0 /\ previousMsgID = NoID
    /\ sent = <<>> /\ nextId = 1
    /\ AuxInit

ParseInit ==
    /\ query \in ParseInputs
    /\ i = 0
    /\ tokens = ScanInit.tokens /\ curr = ScanInit.curr
    /\ inQuote = ScanInit.inQuote /\ quoteChar = ScanInit.quoteChar
    /\ positives = <<>> /\ negatives = <<>>
    /\ ppc = "scan"
    /\ BotOff

\* one iteration of the loop at line 176
ScanByte ==
    /\ ppc = "scan" /\ i < Len(query)
    /\ LET st == ScanStep([tokens |-> tokens, curr |-> curr,
                           inQuote |-> inQuote, quoteChar |-> quoteChar], query[i + 1])
       IN  /\ tokens' = st.tokens /\ curr' = st.curr
           /\ inQuote' = st.inQuote /\ quoteChar' = st.quoteChar
    /\ i' = i + 1
    /\ UNCHANGED <<query, positives, negatives, ppc>>
    /\ UNCHANGED botVars

\* loop exit and the flush at lines 200-202
ScanEnd ==
    /\ ppc = "scan" /\ i = Len(query)
    /\ tokens' = ScanFlush([tokens |-> tokens, curr |-> curr,
                            inQuote |-> inQuote, quoteChar |-> quoteChar])
    /\ ppc' = "classify"
    /\ UNCHANGED <<query, i, curr, inQuote, quoteChar, positives, negatives>>
    /\ UNCHANGED botVars

\* the loop at lines 203-212 and the return
ClassifyTokens ==
    /\ ppc = "classify"
    /\ positives' = Classify(tokens).positives
    /\ negatives' = Classify(tokens).negatives
    /\ ppc' = "done"
    /\ UNCHANGED <<query, i, tokens, curr, inQuote, quoteChar>>
    /\ UNCHANGED botVars

ParseNext == ScanByte \/ ScanEnd \/ ClassifyTokens

SpecParse == ParseInit /\ [][ParseNext]_vars

\* the step machine computes parseArgs
ParseAgrees ==
    ppc = "done" => /\ positives = parseArgs(query).positives
                    /\ negatives = parseArgs(query).negatives

\* ------------------------------------------------------------------------
\* Specification of the bot: events, the query and the delivery
\* ------------------------------------------------------------------------

ParseOff ==
    /\ query = <<>> /\ i = 0 /\ tokens = <<>> /\ curr = <<>>
    /\ inQuote = FALSE /\ quoteChar = NUL
    /\ positives = <<>> /\ negatives = <<>> /\ ppc = "off"

Init ==
    /\ ParseOff
    /\ catalog \in SUBSET Pool
    /\ handled = 0
    /\ eventID = NoID
    /\ pc = "idle"
    /\ results = <<>>
    /\ batchStart = 0
    /\ previousMsgID = NoID
    /\ sent = <<>>
    /\ nextId = 1
    /\ AuxInit

\* mutant of Accepted: events from before the start are not ignored
AcceptedNoTimeCheck(ev) ==
    /\ ev.Sender # BotUser
    /\ ev.RoomID = ConfigRoom
    /\ ev.IsText
    /\ ev.Body # <<>> /\ ev.Body[1] = "!"

\* the filters of the event callback (lines 143-157)
Accepted(ev) ==
    /\ ev.Sender # BotUser
    /\ ev.RoomID = ConfigRoom
    /\ ~(ev.Timestamp < startTime)
    /\ ev.IsText
    /\ ev.Body # <<>> /\ ev.Body[1] = "!"

\* the event callback on event ev, and handleCommand up to the call of db.Query
\* (lines 142-160, 249-259)
Dispatch(ev) ==
    /\ handled' = handled + 1
    /\ nextId' = nextId + 1
    /\ IF /\ Accepted(ev)
          /\ Fields(ev.Body) # <<>>
          /\ Fields(ev.Body)[1] = RomsCommand
       THEN LET q == TrimSpace(SubSeq(ev.Body, Len(RomsCommand) + 1, Len(ev.Body)))
            IN  /\ eventID' = Eid(nextId)
                /\ query' = q
                /\ positives' = parseArgs(q).positives
                /\ negatives' = parseArgs(q).negatives
                /\ results' = <<>>
                /\ batchStart' = 0
                /\ previousMsgID' = NoID
                /\ pc' = "query"
       ELSE UNCHANGED <<pc, eventID, query, positives, negatives, results,
                        batchStart, previousMsgID>>
    /\ UNCHANGED <<i, tokens, curr, inQuote, quoteChar, ppc, catalog, sent, queried, other>>

\* the homeserver delivers the next event once the callback has returned
OnEvent ==
    /\ pc \in {"idle", "done"}
    /\ handled < MaxEvents
    /\ \E ev \in Events : Dispatch(ev)
    /\ UNCHANGED lastEvent

\* db.Query, the rows loop, rows.Err and the sort succeed (lines 260-297).
\* Every column of files holds the text build-db.go inserted, so rows.Scan
\* never fails on a row.
DbQuery ==
    /\ pc = "query"
    /\ results' \in Fetched(buildSQLQuery(positives, negatives, maxResults), catalog)
    /\ pc' = "react"
    /\ queried' = Append(queried, eventID)
    /\ UNCHANGED <<parseVars, catalog, handled, eventID, batchStart, previousMsgID,
                   sent, nextId, lastEvent, other>>

\* db.Query returns an error (line 261)
DbQueryFails ==
    /\ pc = "query"
    /\ pc' = "searchError"
    /\ queried' = Append(queried, eventID)
    /\ UNCHANGED <<parseVars, catalog, handled, eventID, results, batchStart,
                   previousMsgID, sent, nextId, lastEvent, other>>

\* the rows loop stops on an error, which rows.Err reports (lines 274-283):
\* results holds the rows read before it
RowsIterationFails ==
    /\ pc = "query"
    /\ \E all \in Fetched(buildSQLQuery(positives, negatives, maxResults), catalog) :
          \E n \in 0..Len(all) : results' = SubSeq(all, 1, n)
    /\ pc' = "searchError"
    /\ queried' = Append(queried, eventID)
    /\ UNCHANGED <<parseVars, catalog, handled, eventID, batchStart, previousMsgID,
                   sent, nextId, lastEvent, other>>

\* mutant of SendSearchError: the return after the error text is missing
SendSearchErrorNoReturn ==
    /\ pc = "searchError"
    /\ \E ok \in BOOLEAN :
          /\ sent' = Append(sent, ErrorText(eventID, ok, Eid(nextId)))
          /\ nextId' = IF ok THEN nextId + 1 ELSE nextId
    /\ pc' = "react"
    /\ UNCHANGED <<parseVars, catalog, handled, eventID, results, batchStart,
                   previousMsgID>>
    /\ UNCHANGED auxVars

\* client.SendText of the error and return (lines 262-263, 284-285)
SendSearchError ==
    /\ pc = "searchError"
    /\ \E ok \in BOOLEAN :
          /\ sent' = Append(sent, ErrorText(eventID, ok, Eid(nextId)))
          /\ nextId' = IF ok THEN nextId + 1 ELSE nextId
    /\ pc' = "done"
    /\ UNCHANGED <<parseVars, catalog, handled, eventID, results, batchStart,
                   previousMsgID>>
    /\ UNCHANGED auxVars

\* mutant of SendReaction: the overflow branch sends its notice without the
\* reject reaction
SendReactionAcceptOnly ==
    /\ pc = "react"
    /\ IF Len(results) > maxResults
       THEN /\ pc' = "tooMany"
            /\ UNCHANGED <<previousMsgID, batchStart, sent, nextId>>
       ELSE /\ \E ok \in BOOLEAN :
                  /\ sent' = Append(sent, Reaction(eventID, KeyAccept, ok, Eid(nextId)))
                  /\ nextId' = IF ok THEN nextId + 1 ELSE nextId
            /\ pc' = "batch"
            /\ previousMsgID' = eventID
            /\ batchStart' = 0
    /\ UNCHANGED <<parseVars, catalog, handled, eventID, results>>
    /\ UNCHANGED auxVars

\* the reaction: reject when there are too many results (lines 300-308), else
\* accept, and the reply target starts at the trigger (lines 322-333)
SendReaction ==
    /\ pc = "react"
    /\ \E ok \in BOOLEAN :
          /\ sent' = Append(sent,
                        Reaction(eventID,
                                 IF Len(results) > maxResults THEN KeyReject ELSE KeyAccept,
                                 ok, Eid(nextId)))
          /\ nextId' = IF ok THEN nextId + 1 ELSE nextId
    /\ IF Len(results) > maxResults
       THEN /\ pc' = "tooMany"
            /\ UNCHANGED <<previousMsgID, batchStart>>
       ELSE /\ pc' = "batch"
            /\ previousMsgID' = eventID
            /\ batchStart' = 0
    /\ UNCHANGED <<parseVars, catalog, handled, eventID, results>>
    /\ UNCHANGED auxVars

\* the overflow notice and return (lines 309-319)
SendTooMany ==
    /\ pc = "tooMany"
    /\ \E ok \in BOOLEAN :
          /\ sent' = Append(sent, TooManyMsg(eventID, Len(results), ok, Eid(nextId)))
          /\ nextId' = IF ok THEN nextId + 1 ELSE nextId
    /\ pc' = "done"
    /\ UNCHANGED <<parseVars, catalog, handled, eventID, results, batchStart,
                   previousMsgID>>
    /\ UNCHANGED auxVars

\* mutant of BatchEnd: the slice stops one row short of a full batch
BatchEndOneShort(start, n) ==
    IF start + batchSize > n THEN n ELSE start + batchSize - 1

\* batchEnd of the slice results[batchStart:batchEnd] (lines 336-339)
BatchEnd(start, n) ==
    IF start + batchSize > n THEN n ELSE start + batchSize

\* mutant of SendBatch: a failed send skips the batch and the loop goes on
SendBatchContinue ==
    /\ pc = "batch"
    /\ batchStart < Len(results)
    /\ LET batch == SubSeq(results, batchStart + 1, BatchEnd(batchStart, Len(results)))
       IN  \E ok \in BOOLEAN :
              /\ sent' = Append(sent, BatchMsg(eventID, batch, previousMsgID, ok, Eid(nextId)))
              /\ previousMsgID' = IF ok THEN Eid(nextId) ELSE previousMsgID
              /\ nextId' = IF ok THEN nextId + 1 ELSE nextId
              /\ batchStart' = batchStart + batchSize
              /\ pc' = "batch"
    /\ UNCHANGED <<parseVars, catalog, handled, eventID, results>>
    /\ UNCHANGED auxVars

\* mutant of SendBatch: a failed send is tried once more before the loop ends
SendBatchRetryOnce ==
    /\ pc = "batch"
    /\ batchStart < Len(results)
    /\ LET batch == SubSeq(results, batchStart + 1, BatchEnd(batchStart, Len(results)))
           tried == /\ sent # <<>>
                    /\ sent[Len(sent)] = BatchMsg(eventID, batch, previousMsgID, FALSE, Eid(nextId))
       IN  \E ok \in BOOLEAN :
              /\ sent' = Append(sent, BatchMsg(eventID, batch, previousMsgID, ok, Eid(nextId)))
              /\ IF ok
                 THEN /\ previousMsgID' = Eid(nextId)
                      /\ batchStart' = batchStart + batchSize
                      /\ nextId' = nextId + 1
                      /\ pc' = "batch"
                 ELSE /\ pc' = IF tried THEN "done" ELSE "batch"
                      /\ UNCHANGED <<previousMsgID, batchStart, nextId>>
    /\ UNCHANGED <<parseVars, catalog, handled, eventID, results>>
    /\ UNCHANGED auxVars

\* one iteration of the batch loop (lines 335-372)
SendBatch ==
    /\ pc = "batch"
    /\ batchStart < Len(results)
    /\ LET batch == SubSeq(results, batchStart + 1, BatchEnd(batchStart, Len(results)))
       IN  \E ok \in BOOLEAN :
              /\ sent' = Append(sent, BatchMsg(eventID, batch, previousMsgID, ok, Eid(nextId)))
              /\ IF ok
                 THEN /\ previousMsgID' = Eid(nextId)
                      /\ batchStart' = batchStart + batchSize
                      /\ nextId' = nextId + 1
                      /\ pc' = "batch"
                 ELSE /\ pc' = "done"
                      /\ UNCHANGED <<previousMsgID, batchStart, nextId>>
    /\ UNCHANGED <<parseVars, catalog, handled, eventID, results>>
    /\ UNCHANGED auxVars

\* the loop condition fails and handleCommand returns (line 335)
BatchLoopExit ==
    /\ pc = "batch"
    /\ ~(batchStart < Len(results))
    /\ pc' = "done"
    /\ UNCHANGED <<parseVars, catalog, handled, eventID, results, batchStart,
                   previousMsgID, sent, nextId>>
    /\ UNCHANGED auxVars

Next ==
    \/ OnEvent
    \/ DbQuery
    \/ DbQueryFails
    \/ RowsIterationFails
    \/ SendSearchError
    \/ SendReaction
    \/ SendTooMany
    \/ SendBatch
    \/ BatchLoopExit

Spec == Init /\ [][Next]_vars

\* the steps of handleCommand after the query: the goroutine that runs the
\* callback keeps running, and every send returns with an outcome
Delivery ==
    \/ SendSearchError
    \/ SendReaction
    \/ SendTooMany
    \/ SendBatch
    \/ BatchLoopExit

FairSpec == Spec /\ WF_vars(Delivery)

\* ------------------------------------------------------------------------
\* Specification of the event callback, with the delivered event recorded
\* ------------------------------------------------------------------------

\* the catalog is empty, or holds one row, or holds every row
DispatchInit == Init /\ Cardinality(catalog) \in {0, 1, Cardinality(Pool)}

\* the homeserver delivers the next event; the model keeps the event, its id
\* and how much had been queried and sent before it
RecordedEvent ==
    /\ pc \in {"idle", "done"}
    /\ handled < MaxEvents
    /\ \E ev \in Events :
          /\ Dispatch(ev)
          /\ lastEvent' = <<[id |-> Eid(nextId), ev |-> ev,
                             sentBefore |-> Len(sent), queriedBefore |-> Len(queried)]>>

DispatchNext ==
    \/ RecordedEvent
    \/ DbQuery
    \/ DbQueryFails
    \/ RowsIterationFails
    \/ SendSearchError
    \/ SendReaction
    \/ SendTooMany
    \/ SendBatch
    \/ BatchLoopExit

SpecDispatch == DispatchInit /\ [][DispatchNext]_vars

\* ------------------------------------------------------------------------
\* Specification of two invocations of the callback running interleaved
\* ------------------------------------------------------------------------

\* the locals of the running invocation of handleCommand
CurrentFrame ==
    [ eventID |-> eventID, pc |-> pc, query |-> query, positives |-> positives,
      negatives |-> negatives, results |-> results, batchStart |-> batchStart,
      previousMsgID |-> previousMsgID ]

\* a !roms command that passes the filters of the callback
IsCommand(ev) ==
    Accepted(ev) /\ Fields(ev.Body) # <<>> /\ Fields(ev.Body)[1] = RomsCommand

\* an invocation that has not run yet receives a command
ConcEvent ==
    /\ pc = "idle"
    /\ \E ev \in {e \in Events : IsCommand(e)} : Dispatch(ev)
    /\ UNCHANGED lastEvent

\* mutant of ContextSwitch: previousMsgID is one variable shared by the invocations
ContextSwitchSharedThread ==
    /\ other # CurrentFrame
    /\ other' = CurrentFrame
    /\ eventID' = other.eventID
    /\ pc' = other.pc
    /\ query' = other.query
    /\ positives' = other.positives
    /\ negatives' = other.negatives
    /\ results' = other.results
    /\ batchStart' = other.batchStart
    /\ UNCHANGED previousMsgID
    /\ UNCHANGED <<i, tokens, curr, inQuote, quoteChar, ppc>>
    /\ UNCHANGED <<catalog, handled, sent, nextId, queried, lastEvent>>

\* the scheduler suspends the running invocation and resumes the other one:
\* each has its own eventID and its own locals of handleCommand (lines 245-333)
ContextSwitch ==
    /\ other # CurrentFrame
    /\ other' = CurrentFrame
    /\ eventID' = other.eventID
    /\ pc' = other.pc
    /\ query' = other.query
    /\ positives' = other.positives
    /\ negatives' = other.negatives
    /\ results' = other.results
    /\ batchStart' = other.batchStart
    /\ previousMsgID' = other.previousMsgID
    /\ UNCHANGED <<i, tokens, curr, inQuote, quoteChar, ppc>>
    /\ UNCHANGED <<catalog, handled, sent, nextId, queried, lastEvent>>

ConcNext ==
    \/ ConcEvent
    \/ ContextSwitch
    \/ DbQuery
    \/ DbQueryFails
    \/ RowsIterationFails
    \/ SendSearchError
    \/ SendReaction
    \/ SendTooMany
    \/ SendBatch
    \/ BatchLoopExit

\* the full catalog: enough rows for several batches per command
ConcInit == Init /\ catalog = Pool

SpecConc == ConcInit /\ [][ConcNext]_vars

TypeOK ==
    /\ pc \in {"idle", "query", "searchError", "react", "tooMany", "batch", "done"}
    /\ catalog \subseteq Pool
    /\ handled \in 0..MaxEvents
    /\ batchStart \in 0..(maxResults + batchSize)
    /\ \A k \in 1..Len(sent) : sent[k].ok <=> sent[k].id # NoID

\* ------------------------------------------------------------------------
\* Properties of the delivery
\* ------------------------------------------------------------------------

\* the sends invoked for command c, in order
SendsOf(c) == SelectSeq(sent, LAMBDA m : m.cmd = c)

\* the batch messages sent for command c, in order
BatchesOf(c) == SelectSeq(sent, LAMBDA m : m.cmd = c /\ IsBatch(m))

\* the commands that have sent something
Commands == {sent[k].cmd : k \in 1..Len(sent)}

\* the command being handled has its results
HasResults == pc \in {"react", "tooMany", "batch", "done"} /\ eventID # NoID
                 /\ (pc = "done" => \E k \in 1..Len(sent) :
                                       sent[k].cmd = eventID /\ IsReaction(sent[k]))

\* the catalog rows the query of the command being handled matches
TrueMatches == Matching(buildSQLQuery(positives, negatives, maxResults), catalog)

RECURSIVE ConcatRows(_)
ConcatRows(msgs) == IF msgs = <<>> THEN <<>> ELSE Head(msgs).rows \o ConcatRows(Tail(msgs))

Ceil(n, b) == (n + b - 1) \div b

IsRejectReaction(m, c) ==
    /\ IsReaction(m) /\ m.rel_type = "m.annotation" /\ m.event_id = c /\ m.key = KeyReject

IsOverflowReply(m, c) ==
    /\ m.evtype = "m.room.message" /\ m.msgtype = "m.text"
    /\ m.rel_type # "m.thread" /\ m.in_reply_to = c

\* C1: a command whose result count exceeds maxResults sends the reject reaction
\* against the trigger, then exactly one plain reply to the trigger carrying the
\* count, and then stops; it never sends a batch message.
C1_OverflowSendsRejectThenOneReply ==
    /\ HasResults /\ Len(results) > maxResults =>
          LET S == SendsOf(eventID)
          IN  /\ pc # "batch"
              /\ pc = "react" => S = <<>>
              /\ pc = "tooMany" => Len(S) = 1 /\ IsRejectReaction(S[1], eventID)
              /\ pc = "done" =>
                    /\ Len(S) = 2
                    /\ IsRejectReaction(S[1], eventID)
                    /\ IsOverflowReply(S[2], eventID)
                    /\ S[2].body = <<"Too many results: ">> \o Itoa(Len(results))
    /\ \A c \in Commands :
          (\E k \in 1..Len(sent) : sent[k].cmd = c /\ sent[k].key = KeyReject)
             => /\ BatchesOf(c) = <<>>
                /\ Len(SendsOf(c)) <= 2
                /\ IsRejectReaction(SendsOf(c)[1], c)
                /\ Len(SendsOf(c)) = 2 => IsOverflowReply(SendsOf(c)[2], c)

\* C1 witness: an overflowing command has sent its reaction and its reply
C1_Witness ==
    /\ pc = "done" /\ Len(results) > maxResults
    /\ Len(SendsOf(eventID)) = 2
    /\ IsTooMany(SendsOf(eventID)[2])

\* C2: the accept reaction and the batch loop are reached iff the number of
\* catalog rows matching the query is at most maxResults; maxResults matches
\* take the success path and maxResults + 1 or more take the overflow path.
C2_SuccessIffAtMostMaxResults ==
    HasResults /\ pc # "react" =>
       LET S == SendsOf(eventID)
           n == Cardinality(TrueMatches)
       IN  /\ S # <<>> /\ IsReaction(S[1])
           /\ S[1].key = KeyAccept <=> n <= maxResults
           /\ S[1].key = KeyReject <=> n >= maxResults + 1
           /\ pc = "batch" => n <= maxResults
           /\ pc = "tooMany" => n >= maxResults + 1
           /\ (\E k \in 1..Len(S) : IsBatch(S[k])) => n <= maxResults
           /\ (\E k \in 1..Len(S) : IsTooMany(S[k])) => n >= maxResults + 1

\* C2 witness: exactly maxResults rows match and the success path is taken
C2_Witness ==
    /\ pc = "batch" /\ Cardinality(TrueMatches) = maxResults
    /\ SendsOf(eventID)[1].key = KeyAccept
    /\ positives # <<>>

\* C3 (as claimed): the count in the "Too many results" reply is the true number
\* of catalog rows matching the query, also when more than maxResults + 1 match.
C3_ReportedCountIsTrueCount ==
    HasResults =>
       \A k \in 1..Len(sent) :
          sent[k].cmd = eventID /\ IsTooMany(sent[k])
             => sent[k].body = <<"Too many results: ">> \o Itoa(Cardinality(TrueMatches))

\* C4: every batch message has the trigger as thread root; the first batch
\* replies to the trigger and batch k > 1 replies to the id the successful send
\* of batch k-1 returned.
C4_ThreadLinkage ==
    \A c \in Commands :
       LET B == BatchesOf(c)
       IN  \A k \in 1..Len(B) :
              /\ B[k].event_id = c
              /\ B[k].rel_type = "m.thread"
              /\ k = 1 => B[k].in_reply_to = c
              /\ k > 1 => /\ B[k - 1].ok
                          /\ B[k].in_reply_to = B[k - 1].id
                          /\ B[k].in_reply_to # c

\* C4 witness: a second batch was sent in reply to the first
C4_Witness ==
    /\ Len(BatchesOf(eventID)) = 2
    /\ BatchesOf(eventID)[2].in_reply_to = BatchesOf(eventID)[1].id

\* C5: when every batch send succeeds, n results are delivered in ceil(n/batchSize)
\* messages, each but the last of batchSize rows, the last of 1..batchSize rows,
\* and the batches concatenated in send order are the results.
C5_BatchesPartitionResults ==
    ( /\ HasResults /\ pc = "done" /\ Len(results) <= maxResults
      /\ \A k \in 1..Len(sent) : sent[k].cmd = eventID /\ IsBatch(sent[k]) => sent[k].ok )
    => LET B == BatchesOf(eventID)
           n == Len(results)
           lines(m) == Cardinality({j \in 1..Len(m.body) : m.body[j] = "\n"})
       IN  /\ Len(B) = Ceil(n, batchSize)
           /\ n = 0 => B = <<>>
           /\ \A k \in 1..Len(B) :
                 /\ k < Len(B) => Len(B[k].rows) = batchSize
                 /\ k = Len(B) => Len(B[k].rows) \in 1..batchSize
                 /\ lines(B[k]) = Len(B[k].rows)
                 /\ B[k].body = RenderPlain(B[k].rows)
                 /\ B[k].formatted_body = RenderHtml(B[k].rows)
           /\ ConcatRows(B) = results

\* C5 witness: batchSize + 1 results were delivered as batchSize and 1
C5_Witness ==
    /\ pc = "done" /\ Len(results) = batchSize + 1
    /\ Len(BatchesOf(eventID)) = 2
    /\ BatchesOf(eventID)[2].ok
    /\ Len(BatchesOf(eventID)[1].rows) = batchSize
    /\ Len(BatchesOf(eventID)[2].rows) = 1

\* C6: after the send of batch k fails nothing more is sent for the command: no
\* retry, no later batch, no notice; what was delivered is batches 1..k-1.
C6_FailedSendStopsDelivery ==
    \A j \in 1..Len(sent) :
       IsBatch(sent[j]) /\ ~sent[j].ok =>
          /\ \A h \in (j + 1)..Len(sent) : sent[h].cmd # sent[j].cmd
          /\ sent[j].cmd = eventID =>
                LET B == BatchesOf(eventID)
                    k == Len(B)
                IN  /\ pc = "done"
                    /\ B[k] = sent[j]
                    /\ \A h \in 1..(k - 1) : B[h].ok
                    /\ ConcatRows(SubSeq(B, 1, k - 1))
                          = SubSeq(results, 1, (k - 1) * batchSize)
                    /\ B[k].rows = SubSeq(results, (k - 1) * batchSize + 1,
                                          BatchEnd((k - 1) * batchSize, Len(results)))

\* C6 witness: the first batch was delivered, the second failed and delivery stopped
C6_Witness ==
    /\ pc = "done" /\ Len(results) > batchSize
    /\ Len(BatchesOf(eventID)) = 2
    /\ BatchesOf(eventID)[1].ok /\ ~BatchesOf(eventID)[2].ok

\* a < b byte by byte: a is a proper prefix of b, or the first byte in which
\* they differ is smaller in a
LexLess(a, b) ==
    \E k \in 1..Len(b) :
       /\ k <= Len(a) + 1
       /\ \A j \in 1..(k - 1) : a[j] = b[j]
       /\ k = Len(a) + 1 \/ Byte(a[k]) < Byte(b[k])

\* (section, console, file) of a is at most that of b, lexicographically
TupleLeq(a, b) ==
    \/ LexLess(a.section, b.section)
    \/ /\ a.section = b.section
       /\ \/ LexLess(a.console, b.console)
          \/ /\ a.console = b.console
             /\ LexLess(a.file, b.file) \/ a.file = b.file

\* C13: the results handed to delivery are sorted by (section, console, file),
\* and the rows go out in that order across the lines of a batch and across
\* the batch messages.
C13_ResultsSortedAndDeliveredInOrder ==
    /\ HasResults => \A k \in 1..(Len(results) - 1) : TupleLeq(results[k], results[k + 1])
    /\ HasResults =>
          LET B == BatchesOf(eventID)
              out == ConcatRows(B)
          IN  /\ out = SubSeq(results, 1, Len(out))
              /\ \A k \in 1..(Len(out) - 1) : TupleLeq(out[k], out[k + 1])
              /\ \A k \in 1..Len(B) :
                    LET first == (k - 1) * batchSize
                    IN  /\ B[k].body = RenderPlain(SubSeq(results, first + 1,
                                                           first + Len(B[k].rows)))
                        /\ B[k].formatted_body = RenderHtml(SubSeq(results, first + 1,
                                                                   first + Len(B[k].rows)))

\* C13 witness: rows of two sections and two consoles went out in two batches
C13_Witness ==
    /\ pc = "done" /\ Len(BatchesOf(eventID)) = 2
    /\ Len(ConcatRows(BatchesOf(eventID))) = Len(results)
    /\ results[1].section # results[Len(results)].section
    /\ \E k \in 1..(Len(results) - 1) :
          /\ results[k].section = results[k + 1].section
          /\ results[k].console # results[k + 1].console

\* the command being handled took the error return
ErrorReturned == pc = "done" /\ eventID # NoID /\ ~HasResults

\* C14: when db.Query or the iteration over the rows fails, the command sends one
\* plain-text error message and nothing else: no reaction, no batch, no second
\* query; a query that returns no row is not an error.
C14_QueryErrorSendsOneErrorText ==
    /\ pc \in {"query", "searchError"} => SendsOf(eventID) = <<>>
    /\ ErrorReturned =>
          /\ Len(SendsOf(eventID)) = 1
          /\ IsErrorText(SendsOf(eventID)[1])
          /\ SendsOf(eventID)[1].msgtype = "m.text"
          /\ SendsOf(eventID)[1].body[1] = "Search error: "
    /\ \A c \in Commands :
          (\E k \in 1..Len(sent) : sent[k].cmd = c /\ IsErrorText(sent[k]))
             => Len(SendsOf(c)) = 1
    /\ \A k \in 1..Len(queried) : \A h \in 1..Len(queried) : queried[k] = queried[h] => k = h
    /\ HasResults /\ results = <<>> /\ pc \in {"batch", "done"} =>
          /\ Len(SendsOf(eventID)) = 1
          /\ IsReaction(SendsOf(eventID)[1]) /\ SendsOf(eventID)[1].key = KeyAccept

\* C14 witness: the iteration failed after some rows and the error text was sent
C14_Witness ==
    /\ ErrorReturned /\ results # <<>>
    /\ Len(SendsOf(eventID)) = 1 /\ IsErrorText(SendsOf(eventID)[1])

\* the callback returns on ev before looking at its body
Ignored(ev) ==
    \/ ev.Sender = BotUser
    \/ ev.RoomID # ConfigRoom
    \/ ev.Timestamp < startTime

\* C15: an event sent by the bot itself, or of another room, or older than the
\* start of the bot causes no query, no reaction and no message, whatever its body.
C15_IgnoredEventsCauseNothing ==
    \A k \in 1..Len(lastEvent) :
       Ignored(lastEvent[k].ev) =>
          /\ Len(sent) = lastEvent[k].sentBefore
          /\ Len(queried) = lastEvent[k].queriedBefore
          /\ \A h \in 1..Len(sent) : sent[h].cmd # lastEvent[k].id
          /\ \A h \in 1..Len(queried) : queried[h] # lastEvent[k].id
          /\ eventID # lastEvent[k].id
          /\ pc \in {"idle", "done"}

\* C15 witness: a !roms command older than the start of the bot was delivered
C15_Witness ==
    /\ lastEvent # <<>>
    /\ lastEvent[1].ev.Timestamp < startTime
    /\ lastEvent[1].ev.Sender # BotUser /\ lastEvent[1].ev.RoomID = ConfigRoom
    /\ lastEvent[1].ev.IsText /\ lastEvent[1].ev.Body = RomsCommand

\* C16: with command invocations interleaved in any way, every batch message of
\* a command has that command's trigger as thread root and replies either to
\* that trigger or to a message sent before for the same command, never to an
\* id of another command.
C16_ThreadStateIsPerCommand ==
    \A j \in 1..Len(sent) :
       IsBatch(sent[j]) =>
          LET c == sent[j].cmd
              target == sent[j].in_reply_to
          IN  /\ sent[j].event_id = c
              /\ \/ target = c
                 \/ \E h \in 1..(j - 1) :
                       sent[h].cmd = c /\ sent[h].ok /\ sent[h].id = target
              /\ \A h \in 1..Len(sent) :
                    sent[h].cmd # c => target # sent[h].id /\ target # sent[h].cmd
              /\ c # eventID => target # eventID
              /\ c # other.eventID => target # other.eventID

\* C16 witness: a batch of one command was sent between two batches of another
C16_Witness ==
    \E j \in 1..Len(sent) : \E h \in (j + 1)..Len(sent) : \E g \in (h + 1)..Len(sent) :
       /\ IsBatch(sent[j]) /\ IsBatch(sent[h]) /\ IsBatch(sent[g])
       /\ sent[j].cmd = sent[g].cmd /\ sent[h].cmd # sent[j].cmd
       /\ sent[h].ok
       /\ sent[g].in_reply_to = sent[j].id

\* C17: the outcome of every send is inspected before the next send of the same
\* command, the reaction and the overflow reply included: once a reaction send
\* has failed, the command sends no result batch and no overflow reply as if
\* the reaction had succeeded.
C17_FailedReactionIsNotIgnored ==
    \A j \in 1..Len(sent) :
       (IsReaction(sent[j]) /\ ~sent[j].ok) =>
          \A h \in (j + 1)..Len(sent) :
             sent[h].cmd = sent[j].cmd => ~(IsBatch(sent[h]) \/ IsTooMany(sent[h]))

\* the characters the claim names and the entity each is replaced by
Entities == { <<"&", "&amp;">>, <<"<", "&lt;">>, <<">", "&gt;">>,
              <<"\"", "&quot;">>, <<"'", "&#39;">> }

Special == { e[1] : e \in Entities }

\* field with every special character replaced by its entity
Escaped(field) ==
    [k \in 1..Len(field) |->
        IF field[k] \in Special
        THEN (CHOOSE e \in Entities : e[1] = field[k])[2]
        ELSE field[k]]

\* concatenation of a sequence of strings
RECURSIVE Flatten(_)
Flatten(strs) == IF strs = <<>> THEN <<>> ELSE Head(strs) \o Flatten(Tail(strs))

\* C18: in every batch the plain body is the rows' 'section - console - file'
\* lines with the fields as stored, and the HTML body is the rows' lines with
\* section, console and file escaped to entities and the resource URL inside
\* the link target as stored.
C18_HtmlEscapedPlainRaw ==
    \A j \in 1..Len(sent) :
       IsBatch(sent[j]) =>
          LET rows == sent[j].rows
          IN  /\ sent[j].body =
                    Flatten([k \in 1..Len(rows) |->
                        rows[k].section \o <<" - ">> \o rows[k].console
                           \o <<" - ">> \o rows[k].file \o <<"\n">>])
              /\ sent[j].formatted_body =
                    Flatten([k \in 1..Len(rows) |->
                        Escaped(rows[k].section) \o <<" - ">> \o Escaped(rows[k].console)
                           \o <<" - <a href=\"">> \o rows[k].rawurl \o <<"\">">>
                           \o Escaped(rows[k].file) \o <<"</a><br>">>])
              /\ \A k \in 1..Len(sent[j].formatted_body) :
                    sent[j].formatted_body[k] \in {"<", ">", "\"", "'"} =>
                       \E r \in Range(rows) : sent[j].formatted_body[k] \in Range(r.rawurl)

\* C18 witness: a batch was sent with a quote in one file field, '<' or '&'
\* in another, and '&' in a resource URL
C18_Witness ==
    \E j \in 1..Len(sent) :
       /\ IsBatch(sent[j])
       /\ \E r \in Range(sent[j].rows) : "\"" \in Range(r.file)
       /\ \E r \in Range(sent[j].rows) : Range(r.file) \cap {"<", "&"} # {}
       /\ \E r \in Range(sent[j].rows) : "&" \in Range(r.rawurl)
       /\ "&quot;" \in Range(sent[j].formatted_body)
       /\ "&" \in Range(sent[j].formatted_body)
       /\ "\"" \in Range(sent[j].body)

\* command c ran its query to the end without an error and is past the
\* reaction: an error always leaves an error text in the log of sends
QueryCompleted(c) ==
    /\ c \in Range(queried)
    /\ c # eventID \/ pc \in {"tooMany", "batch", "done"}
    /\ ~\E k \in 1..Len(sent) : sent[k].cmd = c /\ IsErrorText(sent[k])

\* C19: a command whose query completed without error sends exactly one
\* reaction, against its trigger, with the reject marker on the overflow path
\* and the accept marker otherwise, and that reaction is the first thing the
\* command sends: it precedes the overflow reply and every result batch.
C19_OneReactionFirst ==
    \A c \in Range(queried) \cup Commands :
       LET s == SendsOf(c)
           reactions == {k \in 1..Len(s) : IsReaction(s[k])}
       IN  /\ QueryCompleted(c) => reactions = {1}
           /\ reactions \subseteq {1}
           /\ reactions = {1} =>
                 /\ s[1].rel_type = "m.annotation"
                 /\ s[1].event_id = c
                 /\ s[1].key \in {KeyAccept, KeyReject}
           /\ \A k \in 1..Len(s) :
                 /\ IsTooMany(s[k]) => k = 2 /\ reactions = {1} /\ s[1].key = KeyReject
                 /\ IsBatch(s[k]) => k >= 2 /\ reactions = {1} /\ s[1].key = KeyAccept

\* C19 witness: a finished command sent the accept marker, whose send failed,
\* and then a result batch
C19_Witness ==
    /\ pc = "done"
    /\ Len(SendsOf(eventID)) >= 2
    /\ IsReaction(SendsOf(eventID)[1])
    /\ SendsOf(eventID)[1].key = KeyAccept
    /\ ~SendsOf(eventID)[1].ok
    /\ IsBatch(SendsOf(eventID)[2])

\* delivery of the current command's results has begun and has not ended
Delivering == pc \in {"react", "tooMany", "batch"}

\* what a command has sent, against the bounds of the claim
DeliveryWithinBounds ==
    \A c \in Commands :
       LET s == SendsOf(c)
           b == BatchesOf(c)
           n == Len(results)
       IN  (c = eventID /\ ~\E k \in 1..Len(s) : IsErrorText(s[k])) =>
              /\ Cardinality({k \in 1..Len(s) : IsReaction(s[k])}) <= 1
              /\ Cardinality({k \in 1..Len(s) : ~IsReaction(s[k])}) <= Ceil(n, batchSize)
              /\ \A k \in 1..(Len(b) - 1) : b[k].ok
              /\ \A k, h \in 1..Len(b) : k # h => b[k].rows # b[h].rows
              /\ (pc = "done" /\ n <= maxResults) =>
                    \/ Len(b) = Ceil(n, batchSize) /\ \A k \in 1..Len(b) : b[k].ok
                    \/ Len(b) >= 1 /\ ~b[Len(b)].ok

\* C20: under every pattern of send outcomes a delivery that has begun ends;
\* it ends after all Ceil(n, batchSize) batches or at the first failed batch
\* send, with at most one reaction send and at most Ceil(n, batchSize) message
\* sends, and no batch is sent twice.
C20_DeliveryTerminatesWithinBounds ==
    /\ Delivering ~> (pc = "done")
    /\ []DeliveryWithinBounds

\* C20 witness: a delivery of three or more rows ended with all its batches
\* sent, the reaction included
C20_Witness ==
    /\ pc = "done"
    /\ Len(results) > batchSize /\ Len(results) <= maxResults
    /\ Len(BatchesOf(eventID)) = Ceil(Len(results), batchSize)
    /\ \A k \in 1..Len(SendsOf(eventID)) : SendsOf(eventID)[k].ok
    /\ Len(SendsOf(eventID)) = 1 + Ceil(Len(results), batchSize)

\* ------------------------------------------------------------------------
\* Specification of the filter alone: buildSQLQuery and the query on term lists
\* ------------------------------------------------------------------------

\* terms parseArgs can return: letters in both cases, the two LIKE wildcards,
\* and the empty term
FilterTerms == { <<"a">>, <<"M", "a">>, <<"n">>, <<"_">>, <<"%">>, <<>> }

\* the query without terms has run
FilterInit ==
    /\ ParseOff
    /\ catalog \in SUBSET Pool
    /\ handled = 0 /\ eventID = NoID /\ pc = "selected"
    /\ results \in Fetched(buildSQLQuery(<<>>, <<>>, maxResults), catalog)
    /\ batchStart = 0 /\ previousMsgID = NoID /\ sent = <<>> /\ nextId = 1
    /\ AuxInit

\* the query is run again with one more positive term (lines 258-297)
AddPositive ==
    /\ pc = "selected"
    /\ Len(positives) + Len(negatives) < MaxTerms
    /\ \E t \in FilterTerms \ {<<>>} :
          /\ positives' = Append(positives, t)
          /\ results' \in Fetched(buildSQLQuery(positives', negatives, maxResults), catalog)
    /\ UNCHANGED <<query, i, tokens, curr, inQuote, quoteChar, negatives, ppc>>
    /\ UNCHANGED <<catalog, handled, eventID, pc, batchStart, previousMsgID, sent, nextId>>
    /\ UNCHANGED auxVars

\* the query is run again with one more negative term (lines 258-297)
AddNegative ==
    /\ pc = "selected"
    /\ Len(positives) + Len(negatives) < MaxTerms
    /\ \E t \in FilterTerms :
          /\ negatives' = Append(negatives, t)
          /\ results' \in Fetched(buildSQLQuery(positives, negatives', maxResults), catalog)
    /\ UNCHANGED <<query, i, tokens, curr, inQuote, quoteChar, positives, ppc>>
    /\ UNCHANGED <<catalog, handled, eventID, pc, batchStart, previousMsgID, sent, nextId>>
    /\ UNCHANGED auxVars

FilterNext == AddPositive \/ AddNegative

SpecFilter == FilterInit /\ [][FilterNext]_vars

\* ------------------------------------------------------------------------
\* Properties of the filter
\* ------------------------------------------------------------------------

\* needle occurs in hay
Contains(hay, needle) ==
    \E k \in 1..(Len(hay) + 1) :
       /\ k + Len(needle) - 1 <= Len(hay)
       /\ SubSeq(hay, k, k + Len(needle) - 1) = needle

\* the case-folded term occurs in one of the three case-folded fields
InSomeField(term, row) ==
    \/ Contains(ToLower(row.section), ToLower(term))
    \/ Contains(ToLower(row.console), ToLower(term))
    \/ Contains(ToLower(row.file), ToLower(term))

\* the rows the substring reading of the terms selects
SubstringMatches ==
    {row \in catalog : /\ \A k \in 1..Len(positives) : InSomeField(positives[k], row)
                       /\ \A k \in 1..Len(negatives) : ~InSomeField(negatives[k], row)}

\* C11 (as claimed): a row is selected iff every positive term, case-folded, is a
\* substring of one of its case-folded fields and no negative term is a
\* substring of any of them, whatever characters the terms are made of.
C11_SelectedIffSubstring ==
    pc = "selected" =>
       /\ TrueMatches = SubstringMatches
       /\ Range(results) \subseteq SubstringMatches
       /\ Len(results) <= maxResults => Range(results) = SubstringMatches

\* C12: adding one positive or one negative term to a query never gives more
\* results, the catalog and maxResults being the same.
C12_AddingTermNeverAddsResults ==
    [][pc = "selected" => /\ Len(results') <= Len(results)
                          /\ Len(results) <= maxResults
                                => Range(results') \subseteq Range(results)]_vars

\* C12 witness: a positive and a negative term were added and each removed rows
C12_Witness ==
    /\ pc = "selected"
    /\ Len(positives) = 1 /\ Len(negatives) = 1
    /\ results # <<>>
    /\ Len(results) < Cardinality(Matching(buildSQLQuery(positives, <<>>, maxResults), catalog))
    /\ Cardinality(Matching(buildSQLQuery(positives, <<>>, maxResults), catalog))
          < Cardinality(catalog)

\* ------------------------------------------------------------------------
\* Properties of parseArgs
\* ------------------------------------------------------------------------

\* reference splitting of a quote-free string at single spaces, empty pieces dropped
RECURSIVE Words(_)
Words(s) ==
    IF s = <<>> THEN <<>>
    ELSE IF Head(s) = " " THEN Words(Tail(s))
    ELSE LET n == CHOOSE k \in 2..(Len(s) + 1) :
                     /\ k = Len(s) + 1 \/ s[k] = " "
                     /\ \A j \in 2..(k - 1) : s[j] # " "
         IN  <<SubSeq(s, 1, n - 1)>> \o Words(SubSeq(s, n, Len(s)))

NoQuotes(s) == Range(s) \cap QuoteChars = {}

\* a prefix after which a new token starts: no quote in it, empty or ending in a space
CleanPrefix(s) == NoQuotes(s) /\ (s = <<>> \/ s[Len(s)] = " ")

ParsedAs(q, pos, neg) == query = q /\ ppc = "done" => positives = pos /\ negatives = neg

\* C7 (as claimed): every term parseArgs returns, positive or negative, is a
\* non-empty string.
C7_TermsNonEmpty ==
    ppc = "done" => /\ \A k \in 1..Len(positives) : Len(positives[k]) > 0
                    /\ \A k \in 1..Len(negatives) : Len(negatives[k]) > 0

\* C8: a space inside a closed quoted span does not split the token: the content
\* of a span that starts a token becomes exactly one token, spaces included and
\* quotes removed (and the content of any span stays in one piece, in the token
\* being accumulated when the span opened); outside quoted spans every space
\* separates tokens; and "a b" -c parses to positives [a b], negatives [c].
C8_QuotedSpanIsOneToken ==
    /\ ppc \in {"classify", "done"} =>
          \A s \in 1..Len(query) : \A e \in (s + 2)..Len(query) :
             ( /\ query[s] \in QuoteChars /\ query[e] = query[s]
               /\ \A j \in (s + 1)..(e - 1) : query[j] # query[s]
               /\ CleanPrefix(SubSeq(query, 1, s - 1)) )
             => LET w == Words(SubSeq(query, 1, s - 1))
                IN  /\ Len(tokens) > Len(w)
                    /\ SubSeq(tokens, 1, Len(w)) = w
                    /\ tokens[Len(w) + 1] = SubSeq(query, s + 1, e - 1)
    /\ ppc \in {"classify", "done"} =>
          \A s \in 1..Len(query) : \A e \in (s + 1)..Len(query) :
             LET before == ScanPrefix(query, s - 1)
                 token == before.curr \o SubSeq(query, s + 1, e - 1)
             IN  ( /\ ~before.inQuote
                   /\ query[s] \in QuoteChars /\ query[e] = query[s]
                   /\ \A j \in (s + 1)..(e - 1) : query[j] # query[s]
                   /\ token # <<>> )
                 => /\ Len(tokens) > Len(before.tokens)
                    /\ tokens[Len(before.tokens) + 1] = token
    /\ ppc \in {"classify", "done"} /\ NoQuotes(query) => tokens = Words(query)
    /\ ParsedAs(<<"\"", "a", " ", "b", "\"", " ", "-", "c">>, <<(<<"a", " ", "b">>)>>, <<(<<"c">>)>>)

\* C8 witness: a closed quoted span with a space inside it was parsed
C8_Witness ==
    /\ ppc = "done"
    /\ query = <<"\"", "a", " ", "b", "\"">>
    /\ positives = <<(<<"a", " ", "b">>)>> /\ negatives = <<>>

\* C9: when the last opening quote is never closed the quote character is dropped
\* and the content accumulated up to the end of the input is still emitted as
\* the last token; a double quote followed by abc parses to positives [abc].
C9_UnmatchedQuoteKeepsContent ==
    /\ ppc \in {"classify", "done"} /\ inQuote =>
          /\ quoteChar \notin Range(curr)
          /\ curr # <<>> => tokens # <<>> /\ tokens[Len(tokens)] = curr
    /\ ppc \in {"classify", "done"} =>
          \A s \in 1..(Len(query) - 1) :
             ( /\ query[s] \in QuoteChars
               /\ \A j \in (s + 1)..Len(query) : query[j] # query[s]
               /\ CleanPrefix(SubSeq(query, 1, s - 1)) )
             => tokens = Words(SubSeq(query, 1, s - 1))
                           \o <<SubSeq(query, s + 1, Len(query))>>
    /\ ParsedAs(<<"\"", "a", "b", "c">>, <<(<<"a", "b", "c">>)>>, <<>>)

\* C9 witness: an input that ends inside an unclosed quoted span with content
C9_Witness ==
    /\ ppc = "done" /\ inQuote
    /\ query = <<"a", " ", "'", "b", "\"">>
    /\ positives = <<(<<"a">>), (<<"b", "\"">>)>>

\* C10: a token is negative, with exactly one leading '-' removed, iff its first
\* character is '-'; every other token is positive, unchanged; both results keep
\* the order of the tokens and together they account for every token once.
C10_ClassifiedOnce ==
    ppc = "done" =>
       LET isNeg(t) == Len(t) > 0 /\ t[1] = "-"
           isPos(t) == Len(t) > 0 /\ t[1] # "-"
           negToks == SelectSeq(tokens, isNeg)
       IN  /\ positives = SelectSeq(tokens, isPos)
           /\ Len(negatives) = Len(negToks)
           /\ \A k \in 1..Len(negToks) :
                 /\ Len(negatives[k]) = Len(negToks[k]) - 1
                 /\ <<"-">> \o negatives[k] = negToks[k]
           /\ Len(positives) + Len(negatives)
                = Cardinality({k \in 1..Len(tokens) : Len(tokens[k]) > 0})

\* C10 witness: positive and negative tokens interleaved, one with two markers
C10_Witness ==
    /\ ppc = "done"
    /\ query = <<"-", "-", "a", " ", "b">>
    /\ negatives = <<(<<"-", "a">>)>> /\ positives = <<(<<"b">>)>>

\* index of the last space of s, 0 when it has none
LastSpace(s) ==
    IF \E k \in 1..Len(s) : s[k] = " "
    THEN CHOOSE k \in 1..Len(s) : s[k] = " " /\ \A j \in (k + 1)..Len(s) : s[j] # " "
    ELSE 0

\* C21: quotes are asymmetric token boundaries. In an input with one closed
\* quoted span and no other quote around it, the bare characters right before
\* the opening quote and the content of the span form one token (the opening
\* quote does not end the token), what follows the closing quote starts a new
\* token even without a space (the closing quote ends the token), and a span
\* with nothing accumulated yields no token; ab"cd ef" parses to the single
\* term [abcd ef], "ab"cd to the two terms [ab] and [cd], and "" to no term.
C21_QuotesAreAsymmetricBoundaries ==
    /\ ppc \in {"classify", "done"} =>
          \A s \in 1..Len(query) : \A e \in (s + 1)..Len(query) :
             LET before == SubSeq(query, 1, s - 1)
                 content == SubSeq(query, s + 1, e - 1)
                 after == SubSeq(query, e + 1, Len(query))
                 bare == SubSeq(before, LastSpace(before) + 1, Len(before))
                 token == bare \o content
             IN  ( /\ query[s] \in QuoteChars /\ query[e] = query[s]
                   /\ query[s] \notin Range(content)
                   /\ NoQuotes(before) /\ NoQuotes(after) )
                 => tokens = Words(SubSeq(before, 1, LastSpace(before)))
                               \o (IF token = <<>> THEN <<>> ELSE <<token>>)
                               \o Words(after)
    /\ ParsedAs(<<"a", "b", "\"", "c", "d", " ", "e", "f", "\"">>,
                <<(<<"a", "b", "c", "d", " ", "e", "f">>)>>, <<>>)
    /\ ParsedAs(<<"\"", "a", "b", "\"", "c", "d">>, <<(<<"a", "b">>), (<<"c", "d">>)>>, <<>>)
    /\ ParsedAs(<<"\"", "\"">>, <<>>, <<>>)

\* C21 witness: a bare character, a quoted span and a bare character with no
\* space between them were parsed into two terms
C21_Witness ==
    /\ ppc = "done"
    /\ query = <<"a", "\"", "b", "\"", "a">>
    /\ tokens = <<(<<"a", "b">>), (<<"a">>)>>
    /\ positives = <<(<<"a", "b">>), (<<"a">>)>> /\ negatives = <<>>

====
